---- MODULE Spec2Model ----
(***************************************************************************)
(* A model of the MLS image proxy (src/app.py): the name functions         *)
(* (extract_image_name, normalize_image_name, is_valid_image_name,         *)
(* get_storage_key), the origin fetch (fetch_image_from_mls) and the       *)
(* cache-aside handler (get_image) running for several requests against    *)
(* one shared object store.                                                *)
(*                                                                         *)
(* A Python str is a sequence of one-character strings.  Bytes are never   *)
(* inspected by the program except for their length and for whether PIL    *)
(* can open them, so a body is a record of its length, its decodability    *)
(* and a tag that tells two bodies of the same length apart.               *)
(***************************************************************************)
EXTENDS Naturals, Sequences, FiniteSets

VARIABLES
    store,      \* the R2 bucket: a function from the keys present to bodies
    req,        \* per request: position in get_image, locals, I/O issued
    arg,        \* name functions: the input string
    npieces,    \* name functions: how many pieces arg was built from
    fn,         \* name functions: which function was applied to arg
    out,        \* name functions: the str result
    ok          \* name functions: the bool result

vars == <<store, req, arg, npieces, fn, out, ok>>

(***************************************************************************)
(* Bounds of the model.                                                    *)
(***************************************************************************)
NumReq == 2
MaxPieces == 3

(***************************************************************************)
(* Characters.                                                             *)
(***************************************************************************)
LF == "\n"
\* A decimal digit outside ASCII (ARABIC-INDIC DIGIT THREE): \d matches it,
\* [0-9] does not.
UDIGIT == "U+0663"

AsciiDigit == {"0", "1", "2", "3", "4", "5", "6", "7", "8", "9"}

\* re: \d on a str pattern matches every Unicode decimal digit
DecimalDigit == AsciiDigit \cup {UDIGIT}

\* str.lower, one character
LowerChar(c) ==
    CASE c = "J" -> "j"
      [] c = "P" -> "p"
      [] c = "G" -> "g"
      [] c = "L" -> "l"
      [] OTHER -> c

\* str.lower
Lower(s) == [i \in 1..Len(s) |-> LowerChar(s[i])]

\* str.endswith
EndsWith(s, suffix) ==
    /\ Len(s) >= Len(suffix)
    /\ SubSeq(s, Len(s) - Len(suffix) + 1, Len(s)) = suffix

DOTJPG == <<".", "j", "p", "g">>

\* os.path.basename (posixpath): everything after the last "/"
Basename(p) ==
    LET slashes == {i \in 1..Len(p) : p[i] = "/"}
        last == IF slashes = {} THEN 0
                ELSE CHOOSE i \in slashes : \A j \in slashes : j <= i
    IN SubSeq(p, last + 1, Len(p))

(***************************************************************************)
(* The name functions.                                                     *)
(***************************************************************************)
normalize_image_name(image_name) ==
    LET base == Basename(image_name)
    IN IF EndsWith(Lower(base), DOTJPG)
       THEN SubSeq(base, 1, Len(base) - 4)
       ELSE base

\* re "$" without MULTILINE: the end of the string, or just before a newline
\* that is the last character.  The set of lengths n such that "$" matches
\* after the first n characters of s.
DollarEnds(s) ==
    {Len(s)} \cup (IF Len(s) > 0 /\ s[Len(s)] = LF THEN {Len(s) - 1} ELSE {})

\* MatchesNameRe with [0-9]+ for [0-9]{8}: a digit run of any length.
MatchesNameRe_AnyRun(s) ==
    \E n \in DollarEnds(s), d \in 1..Len(s) :
        /\ n >= d + 3
        /\ \A i \in 1..d : s[i] \in AsciiDigit
        /\ s[d + 1] = "."
        /\ s[d + 2] = "L"
        /\ \A i \in (d + 3)..n : s[i] \in DecimalDigit

\* re.match(r'^[0-9]{8}\.L\d+$', s)
MatchesNameRe(s) ==
    \E n \in DollarEnds(s) :
        /\ n >= 11
        /\ \A i \in 1..8 : s[i] \in AsciiDigit
        /\ s[9] = "."
        /\ s[10] = "L"
        /\ \A i \in 11..n : s[i] \in DecimalDigit

\* is_valid_image_name that accepts a name only with its .jpg suffix.
is_valid_image_name_SuffixOnly(image_name) ==
    /\ EndsWith(Lower(image_name), DOTJPG)
    /\ MatchesNameRe(normalize_image_name(image_name))

is_valid_image_name(image_name) ==
    MatchesNameRe(normalize_image_name(image_name))

\* get_storage_key that appends .jpg to the name as given.
get_storage_key_Appends(image_name) ==
    Basename(image_name) \o DOTJPG

\* get_storage_key that strips only a lower-case .jpg suffix.
get_storage_key_CaseSensitive(image_name) ==
    LET base == Basename(image_name)
    IN (IF EndsWith(base, DOTJPG)
        THEN SubSeq(base, 1, Len(base) - 4)
        ELSE base) \o DOTJPG

get_storage_key(image_name) ==
    normalize_image_name(image_name) \o DOTJPG

\* re.match(r'^(?:\d{8}/)?([^/]+)$', path): the prefix lengths k (0, or 9 for
\* a date segment) from which the rest of the path is one or more characters
\* other than "/" up to the end.  [^/] matches a newline, so group 1 runs to
\* the end of the string.
ExtractPrefixes(path) ==
    {k \in {0, 9} :
        /\ k = 9 =>
              /\ Len(path) >= 9
              /\ \A i \in 1..8 : path[i] \in DecimalDigit
              /\ path[9] = "/"
        /\ Len(path) > k
        /\ \A i \in (k + 1)..Len(path) : path[i] # "/"}

\* extract_image_name as a basename: the directories are dropped here.
extract_image_name_Basename(path) ==
    Basename(path)

extract_image_name(path) ==
    LET ks == ExtractPrefixes(path)
    IN IF ks # {}
       THEN \* the optional group is greedy: the date segment is taken first
            LET k == CHOOSE k \in ks : \A j \in ks : j <= k
            IN SubSeq(path, k + 1, Len(path))
       ELSE path

(***************************************************************************)
(* Strings the model uses as inputs.                                       *)
(***************************************************************************)
NAME == <<"1", "2", "3", "4", "5", "6", "7", "8", ".", "L", "1">>
DATE == <<"2", "0", "2", "4", "0", "1", "0", "1", "/">>
SHORTRUN == <<"1", "2", "3", "4", "5", "6", "7">>
DOTL1 == <<".", "L", "1">>
MIXEDJPG == <<".", "J", "p", "G">>
UPDIR == <<".", ".", "/">>
ETCPASSWD == <<"e", "t", "c", "/", "p", "a", "s", "s", "w", "d">>
TRAVERSAL == UPDIR \o UPDIR \o ETCPASSWD

\* The pieces an input string of the name functions is concatenated from.
Pieces ==
    {NAME, DATE, SHORTRUN, DOTL1, DOTJPG, MIXEDJPG, UPDIR, ETCPASSWD,
     <<"9">>, <<"/">>, <<LF>>, <<UDIGIT>>, <<"a">>}

\* The raw path tails a request may carry.
ReqPaths ==
    {NAME,                      \* bare name
     NAME \o MIXEDJPG,          \* with a .jpg suffix, mixed case
     DATE \o NAME,              \* behind a date segment
     <<"a", "/">> \o NAME,      \* behind a directory
     NAME \o <<LF>>,            \* with a trailing newline
     TRAVERSAL,                 \* rejected
     SHORTRUN \o DOTL1}         \* rejected: 7 digits

(***************************************************************************)
(* Bodies and origin responses.                                            *)
(***************************************************************************)
\* Python None, as returned by fetch_image_from_mls
None == [size |-> 0, image |-> FALSE, tag |-> "None"]

ImgA == [size |-> 51200, image |-> TRUE, tag |-> "A"]
Img100 == [size |-> 100, image |-> TRUE, tag |-> "B"]
Img99 == [size |-> 99, image |-> TRUE, tag |-> "C"]
HtmlPage == [size |-> 2048, image |-> FALSE, tag |-> "D"]
EmptyBody == [size |-> 0, image |-> FALSE, tag |-> ""]

\* What the origin does with one request: raises == "get" when session.get
\* fails (connect error, timeout, protocol error), "read" when the body
\* cannot be read, "none" when status, headers and body arrive.
Resp(status, ctype, body, raises) ==
    [status |-> status, ctype |-> ctype, body |-> body, raises |-> raises]

NoResp == Resp(0, "absent", None, "none")

OriginResponses ==
    {Resp(200, "image/jpeg", ImgA, "none"),
     Resp(200, "text/html", ImgA, "none"),
     Resp(200, "absent", Img100, "none"),
     Resp(200, "image/jpeg", Img99, "none"),
     Resp(200, "text/html", HtmlPage, "none"),
     Resp(200, "image/jpeg", EmptyBody, "none"),
     Resp(404, "text/html", HtmlPage, "none"),
     Resp(200, "image/jpeg", ImgA, "read"),
     Resp(0, "absent", EmptyBody, "get")}

\* bool(x) of an Optional[bytes]
Truthy(data) == data # None /\ data.size > 0

\* len(content) < 100
MinContentLen == 100

\* The except clauses of fetch_image_from_mls.  Python evaluates the
\* expression of the first clause, asyncio.TimeoutError, to match the
\* exception against it; the module never imports asyncio, so that raises
\* NameError, which leaves the function.
FetchExceptClauses ==
    [raised |-> TRUE, value |-> None]

\* fetch_image_from_mls without the check of len(content).
fetch_image_from_mls_NoLenCheck(resp) ==
    IF resp.raises = "get" THEN FetchExceptClauses
    ELSE IF resp.status # 200 THEN [raised |-> FALSE, value |-> None]
    ELSE IF resp.raises = "read" THEN FetchExceptClauses
    ELSE IF resp.body.image
         THEN [raised |-> FALSE, value |-> resp.body]
         ELSE [raised |-> FALSE, value |-> None]

\* fetch_image_from_mls without the Image.open check.
fetch_image_from_mls_NoImageCheck(resp) ==
    IF resp.raises = "get" THEN FetchExceptClauses
    ELSE IF resp.status # 200 THEN [raised |-> FALSE, value |-> None]
    ELSE IF resp.raises = "read" THEN FetchExceptClauses
    ELSE IF resp.body.size < MinContentLen
         THEN [raised |-> FALSE, value |-> None]
    ELSE [raised |-> FALSE, value |-> resp.body]

\* fetch_image_from_mls, given what the origin does: the value returned, or
\* raised |-> TRUE when an exception leaves the function.
fetch_image_from_mls(resp) ==
    IF resp.raises = "get" THEN FetchExceptClauses
    ELSE IF resp.status # 200 THEN [raised |-> FALSE, value |-> None]
    ELSE IF resp.raises = "read" THEN FetchExceptClauses
    ELSE IF resp.body.size < MinContentLen
         THEN [raised |-> FALSE, value |-> None]
    ELSE IF resp.body.image
         THEN [raised |-> FALSE, value |-> resp.body]
         ELSE [raised |-> FALSE, value |-> None]

(***************************************************************************)
(* get_image.  The handler runs on the event loop and gives it up only at  *)
(* "await fetch_image_from_mls": from the call to that await, and from the *)
(* return of the fetch to the response, it runs without interleaving       *)
(* (boto3's get_object and put_object are blocking calls).                 *)
(***************************************************************************)
Requests == 1..NumReq

\* A request that has not arrived yet.
InitReq ==
    [pc |-> "idle",         \* idle | fetching | done
     path |-> <<>>,         \* image_name, the raw path tail
     name |-> <<>>,         \* actual_image_name
     key |-> <<>>,          \* storage_key
     gets |-> <<>>,         \* keys passed to r2.get_object
     got |-> "none",        \* how get_object ended
     fetches |-> <<>>,      \* 'name' parameters sent to the origin
     resp |-> NoResp,       \* what the origin did
     puts |-> <<>>,         \* r2.put_object calls: key, body, whether it succeeded
     status |-> 0,          \* HTTP status of the response, 0 while there is none
     body |-> None]         \* content of the response

\* Line 131: the request as it enters get_image.
Entered(path) ==
    [InitReq EXCEPT !.path = path, !.name = extract_image_name(path)]

\* Rejected with the name validated only after the store was asked.
Rejected_AfterLookup(path) ==
    LET e == Entered(path)
        k == get_storage_key(e.name)
    IN [e EXCEPT !.key = k, !.gets = <<k>>, !.got = "NoSuchKey",
                 !.pc = "done", !.status = 400]

\* Lines 136-138: raise HTTPException(400).
Rejected(path) ==
    [Entered(path) EXCEPT !.pc = "done", !.status = 400]

\* Lines 141-147: the storage key is derived and get_object is called.
Looked(path, how) ==
    LET e == Entered(path)
        k == get_storage_key(e.name)
    IN [e EXCEPT !.key = k, !.gets = <<k>>, !.got = how]

\* ServedFromStore with the body of the get_object response never read.
ServedFromStore_Unread(path, st) ==
    [Looked(path, "hit") EXCEPT !.pc = "done", !.status = 200]

\* Lines 148-149, 179-183: the stored body is served.
ServedFromStore(path, st) ==
    LET l == Looked(path, "hit")
    IN [l EXCEPT !.pc = "done", !.status = 200, !.body = st[l.key]]

\* StoreFailed with every error of get_object taken for a missing key.
StoreFailed_AsMiss(path, err) ==
    LET l == Looked(path, err)
    IN [l EXCEPT !.pc = "fetching",
                 !.fetches = <<normalize_image_name(l.name)>>]

\* Lines 174-176 (a ClientError other than NoSuchKey) and 187-189 (any other
\* exception of get_object or of Body.read): HTTPException(500).
StoreFailed(path, err) ==
    [Looked(path, err) EXCEPT !.pc = "done", !.status = 500]

\* Lines 152-155 and 88-98: NoSuchKey, the origin request is sent.
Fetching(path) ==
    LET l == Looked(path, "NoSuchKey")
    IN [l EXCEPT !.pc = "fetching",
                 !.fetches = <<normalize_image_name(l.name)>>]

\* FetchRaised without the "except Exception" of get_image: the exception
\* leaves the handler and no HTTP outcome is set.
FetchRaised_Escapes(rq, resp) ==
    [rq EXCEPT !.pc = "done", !.resp = resp]

\* Lines 187-189: an exception out of fetch_image_from_mls is no
\* HTTPException, so "except Exception" turns it into HTTPException(500).
FetchRaised(rq, resp) ==
    [rq EXCEPT !.pc = "done", !.resp = resp, !.status = 500]

\* NotFound with one retry of the origin fetch before the 404.
NotFound_Retry(rq, resp) ==
    IF Len(rq.fetches) < 2
    THEN [rq EXCEPT !.fetches = Append(@, normalize_image_name(rq.name))]
    ELSE [rq EXCEPT !.pc = "done", !.resp = resp, !.status = 404]

\* Lines 157-159: raise HTTPException(404).
NotFound(rq, resp) ==
    [rq EXCEPT !.pc = "done", !.resp = resp, !.status = 404]

\* Filled with the image name, not the storage key, as the key of the put.
Filled_KeyIsName(rq, resp, data, putOk) ==
    [rq EXCEPT !.pc = "done", !.resp = resp,
               !.puts = <<[key |-> rq.name, body |-> data, ok |-> putOk]>>,
               !.status = 200, !.body = data]

\* Filled with the exception of put_object not swallowed.
Filled_PutErrorEscapes(rq, resp, data, putOk) ==
    [rq EXCEPT !.pc = "done", !.resp = resp,
               !.puts = <<[key |-> rq.key, body |-> data, ok |-> putOk]>>,
               !.status = IF putOk THEN 200 ELSE 500,
               !.body = IF putOk THEN data ELSE None]

\* Lines 162-172 and 179-183: put_object is called, its exception if any is
\* swallowed, and the fetched body is served.
Filled(rq, resp, data, putOk) ==
    [rq EXCEPT !.pc = "done", !.resp = resp,
               !.puts = <<[key |-> rq.key, body |-> data, ok |-> putOk]>>,
               !.status = 200, !.body = data]

\* PutObject with the Body argument left out: an empty object is stored.
PutObject_EmptyBody(st, key, data, putOk) ==
    IF putOk
    THEN [k \in DOMAIN st \cup {key} |-> IF k = key THEN EmptyBody ELSE st[k]]
    ELSE st

\* r2.put_object: the bucket afterwards.  A put that raises stores nothing.
PutObject(st, key, data, putOk) ==
    IF putOk
    THEN [k \in DOMAIN st \cup {key} |-> IF k = key THEN data ELSE st[k]]
    ELSE st

\* Requests are numbered in the order they arrive.
Arrives(r) ==
    /\ req[r].pc = "idle"
    /\ \A q \in Requests : q < r => req[q].pc # "idle"

NamesUnchanged == UNCHANGED <<arg, npieces, fn, out, ok>>

RejectInvalid(r, path) ==
    /\ Arrives(r)
    /\ ~is_valid_image_name(extract_image_name(path))
    /\ req' = [req EXCEPT ![r] = Rejected(path)]
    /\ UNCHANGED store
    /\ NamesUnchanged

StoreHit(r, path) ==
    /\ Arrives(r)
    /\ is_valid_image_name(extract_image_name(path))
    /\ get_storage_key(extract_image_name(path)) \in DOMAIN store
    /\ req' = [req EXCEPT ![r] = ServedFromStore(path, store)]
    /\ UNCHANGED store
    /\ NamesUnchanged

StoreError(r, path, err) ==
    /\ Arrives(r)
    /\ is_valid_image_name(extract_image_name(path))
    /\ req' = [req EXCEPT ![r] = StoreFailed(path, err)]
    /\ UNCHANGED store
    /\ NamesUnchanged

StoreMiss(r, path) ==
    /\ Arrives(r)
    /\ is_valid_image_name(extract_image_name(path))
    /\ get_storage_key(extract_image_name(path)) \notin DOMAIN store
    /\ req' = [req EXCEPT ![r] = Fetching(path)]
    /\ UNCHANGED store
    /\ NamesUnchanged

FetchRaise(r, resp) ==
    /\ req[r].pc = "fetching"
    /\ fetch_image_from_mls(resp).raised
    /\ req' = [req EXCEPT ![r] = FetchRaised(req[r], resp)]
    /\ UNCHANGED store
    /\ NamesUnchanged

FetchMiss(r, resp) ==
    /\ req[r].pc = "fetching"
    /\ ~fetch_image_from_mls(resp).raised
    /\ ~Truthy(fetch_image_from_mls(resp).value)
    /\ req' = [req EXCEPT ![r] = NotFound(req[r], resp)]
    /\ UNCHANGED store
    /\ NamesUnchanged

FetchOkPut(r, resp, putOk) ==
    /\ req[r].pc = "fetching"
    /\ ~fetch_image_from_mls(resp).raised
    /\ Truthy(fetch_image_from_mls(resp).value)
    /\ req' = [req EXCEPT ![r] =
                 Filled(req[r], resp, fetch_image_from_mls(resp).value, putOk)]
    \* the bucket receives the Key and the Body of the put_object call
    /\ LET put == req'[r].puts[1]
       IN store' = PutObject(store, put.key, put.body, put.ok)
    /\ NamesUnchanged

\* How get_object fails other than by NoSuchKey: a ClientError with another
\* code, or an exception that is no ClientError.
StoreErrors == {"ClientError", "Exception"}

(***************************************************************************)
(* The name functions applied to strings built from Pieces.                *)
(***************************************************************************)
ProtocolUnchanged == UNCHANGED <<store, req>>

AppendPiece(p) ==
    /\ fn = "none"
    /\ npieces < MaxPieces
    /\ arg' = arg \o p
    /\ npieces' = npieces + 1
    /\ UNCHANGED <<fn, out, ok>>
    /\ ProtocolUnchanged

ApplyExtract ==
    /\ fn = "none"
    /\ fn' = "extract_image_name"
    /\ out' = extract_image_name(arg)
    /\ UNCHANGED <<arg, npieces, ok>>
    /\ ProtocolUnchanged

ApplyNormalize ==
    /\ fn = "none"
    /\ fn' = "normalize_image_name"
    /\ out' = normalize_image_name(arg)
    /\ UNCHANGED <<arg, npieces, ok>>
    /\ ProtocolUnchanged

ApplyValidate ==
    /\ fn = "none"
    /\ fn' = "is_valid_image_name"
    /\ ok' = is_valid_image_name(arg)
    /\ UNCHANGED <<arg, npieces, out>>
    /\ ProtocolUnchanged

ApplyStorageKey ==
    /\ fn = "none"
    /\ fn' = "get_storage_key"
    /\ out' = get_storage_key(arg)
    /\ UNCHANGED <<arg, npieces, ok>>
    /\ ProtocolUnchanged

(***************************************************************************)
(* Specifications.                                                         *)
(***************************************************************************)
Init ==
    /\ store = <<>>
    /\ req = [r \in Requests |-> InitReq]
    /\ arg = <<>>
    /\ npieces = 0
    /\ fn = "none"
    /\ out = <<>>
    /\ ok = FALSE

Next ==
    \/ \E r \in Requests, path \in ReqPaths : RejectInvalid(r, path)
    \/ \E r \in Requests, path \in ReqPaths : StoreHit(r, path)
    \/ \E r \in Requests, path \in ReqPaths, err \in StoreErrors :
          StoreError(r, path, err)
    \/ \E r \in Requests, path \in ReqPaths : StoreMiss(r, path)
    \/ \E r \in Requests, resp \in OriginResponses : FetchRaise(r, resp)
    \/ \E r \in Requests, resp \in OriginResponses : FetchMiss(r, resp)
    \/ \E r \in Requests, resp \in OriginResponses, putOk \in BOOLEAN :
          FetchOkPut(r, resp, putOk)

\* Requests against the store.
Spec == Init /\ [][Next]_vars

\* The awaited origin fetch of request r returns or raises.
FetchReturns(r) ==
    \E resp \in OriginResponses :
        \/ FetchRaise(r, resp)
        \/ FetchMiss(r, resp)
        \/ \E putOk \in BOOLEAN : FetchOkPut(r, resp, putOk)

\* Requests against the store, with every origin call ending: session.get
\* carries timeout=30, so the await of line 155 returns or raises.
SpecFair ==
    Init /\ [][Next]_vars /\ \A r \in Requests : WF_vars(FetchReturns(r))

NextNames ==
    \/ \E p \in Pieces : AppendPiece(p)
    \/ ApplyExtract
    \/ ApplyNormalize
    \/ ApplyValidate
    \/ ApplyStorageKey

\* The name functions on their own.
SpecNames == Init /\ [][NextNames]_vars

(***************************************************************************)
(* Vocabulary of the properties.                                           *)
(***************************************************************************)
Done(r) == req[r].pc = "done"

NoIO(rq) == rq.gets = <<>> /\ rq.fetches = <<>> /\ rq.puts = <<>>

\* The origin call fails at the network level: an exception is raised inside
\* the try block of the fetch.
NetworkFailure(resp) ==
    \/ resp.raises = "get"
    \/ resp.raises = "read" /\ resp.status = 200

\* The origin answers with status 200 and a body of at least 100 bytes that
\* decodes as an image.
ValidPayload(resp) ==
    /\ resp.raises = "none"
    /\ resp.status = 200
    /\ resp.body.size >= 100
    /\ resp.body.image

\* The origin answers, with a status other than 200, or with a body shorter
\* than 100 bytes, or with a body that is no image.
OriginMiss(resp) ==
    /\ resp.raises # "get"
    /\ \/ resp.status # 200
       \/ resp.raises = "none" /\ (resp.body.size < 100 \/ ~resp.body.image)

\* A Content-Type header that is present and does not begin with image/.
ForeignContentType(resp) ==
    resp.ctype \notin {"absent", "image/jpeg"}

HasSlash(s) == \E i \in 1..Len(s) : s[i] = "/"

\* The last "/"-separated component of s.
RECURSIVE FinalComponent(_)
FinalComponent(s) ==
    IF s = <<>> THEN <<>>
    ELSE IF s[Len(s)] = "/" THEN <<>>
    ELSE FinalComponent(SubSeq(s, 1, Len(s) - 1)) \o <<s[Len(s)]>>

\* The length of the run of ASCII digits s starts with.
RECURSIVE LeadingRun(_)
LeadingRun(s) ==
    IF s = <<>> THEN 0
    ELSE IF s[1] \notin AsciiDigit THEN 0
    ELSE 1 + LeadingRun(Tail(s))

\* A single non-empty component, or one behind one segment of 8 decimal
\* digits.
PlainOrDated(s) ==
    /\ FinalComponent(s) # <<>>
    /\ \/ ~HasSlash(s)
       \/ /\ Len(s) = 9 + Len(FinalComponent(s))
          /\ \A i \in 1..8 : s[i] \in DecimalDigit

(***************************************************************************)
(* Properties of get_image, under Spec.                                    *)
(***************************************************************************)

\* C1: a request whose store lookup reported key-absent and whose origin call
\* failed at the network level ends with 404 and without a store put.
C1_NetworkFailureIsNotFound ==
    \A r \in Requests :
        (Done(r) /\ req[r].got = "NoSuchKey" /\ NetworkFailure(req[r].resp))
            => (req[r].status = 404 /\ req[r].puts = <<>>)

\* C2: a request whose extracted name is not valid ends with 400 having
\* issued no store get, no origin fetch and no store put, and the step that
\* rejects it leaves the store as it was.
C2_InvalidShortCircuits ==
    /\ [](\A r \in Requests :
            (req[r].pc # "idle"
             /\ ~is_valid_image_name(extract_image_name(req[r].path)))
                => (Done(r) /\ req[r].status = 400 /\ NoIO(req[r])))
    /\ [](\A r \in Requests : req[r].status = 400 => NoIO(req[r]))
    /\ [][\A r \in Requests :
            (req[r].pc = "idle" /\ req'[r].status = 400) => store' = store]_vars

C2_Witness ==
    \E r \in Requests :
        Done(r) /\ req[r].path = TRAVERSAL /\ req[r].status = 400

\* C3: a request whose store get returned the stored bytes ends with 200 and
\* exactly those bytes, without an origin fetch or a store put, and leaves the
\* store as it was; a get that does not fail returns the bytes whenever the
\* key is in the store.
C3_WarmCache ==
    /\ [](\A r \in Requests :
            req[r].got = "hit"
                => (Done(r) /\ req[r].status = 200
                    /\ req[r].fetches = <<>> /\ req[r].puts = <<>>))
    /\ [][\A r \in Requests :
            (req[r].pc = "idle" /\ req'[r].got = "hit")
                => (/\ req'[r].key \in DOMAIN store
                    /\ req'[r].body = store[req'[r].key]
                    /\ store' = store)]_vars
    /\ [][\A r \in Requests :
            (req[r].pc = "idle" /\ req'[r].gets # <<>>
             /\ req'[r].got \notin StoreErrors
             /\ req'[r].gets[1] \in DOMAIN store)
                => req'[r].got = "hit"]_vars

C3_Witness ==
    \E r \in Requests :
        Done(r) /\ req[r].got = "hit" /\ req[r].status = 200
        /\ req[r].body = ImgA /\ req[r].path = DATE \o NAME

\* C4: a request whose lookup reported key-absent and whose origin fetch
\* brought a valid payload has issued exactly one put, under the key of its
\* get and with the fetched bytes, and ends with 200 and those bytes.
C4_ColdFill ==
    \A r \in Requests :
        (Done(r) /\ req[r].got = "NoSuchKey" /\ ValidPayload(req[r].resp))
            => (/\ Len(req[r].gets) = 1
                /\ Len(req[r].puts) = 1
                /\ req[r].puts[1].key = req[r].gets[1]
                /\ req[r].puts[1].body = req[r].resp.body
                /\ req[r].status = 200
                /\ req[r].body = req[r].resp.body)

C4_Witness ==
    \E r \in Requests :
        /\ Done(r) /\ req[r].got = "NoSuchKey"
        /\ req[r].resp = Resp(200, "image/jpeg", ImgA, "none")
        /\ req[r].puts # <<>> /\ req[r].puts[1].ok
        /\ req[r].key \in DOMAIN store /\ store[req[r].key] = ImgA

\* C5: a request whose put raised still ends with 200 and the fetched bytes,
\* and the step of the failed put leaves the store as it was.
C5_PutFailureAbsorbed ==
    /\ [](\A r \in Requests :
            (req[r].puts # <<>> /\ ~req[r].puts[1].ok)
                => (/\ Done(r)
                    /\ req[r].got = "NoSuchKey"
                    /\ ValidPayload(req[r].resp)
                    /\ req[r].status = 200
                    /\ req[r].body = req[r].resp.body))
    /\ [][\A r \in Requests :
            (req[r].puts = <<>> /\ req'[r].puts # <<>> /\ ~req'[r].puts[1].ok)
                => store' = store]_vars

C5_Witness ==
    \E r \in Requests :
        /\ Done(r) /\ req[r].puts # <<>> /\ ~req[r].puts[1].ok
        /\ req[r].status = 200 /\ req[r].body = ImgA
        /\ req[r].key \notin DOMAIN store

\* C6: a request whose lookup reported key-absent and whose origin answered
\* with a status other than 200, a body under 100 bytes or a body that is no
\* image ends with 404 and no put, and the step leaves the store as it was.
C6_BothMiss ==
    /\ [](\A r \in Requests :
            (Done(r) /\ req[r].got = "NoSuchKey" /\ OriginMiss(req[r].resp))
                => (req[r].status = 404 /\ req[r].puts = <<>>))
    /\ [][\A r \in Requests :
            (req[r].pc = "fetching" /\ req'[r].status = 404)
                => store' = store]_vars

C6_Witness ==
    \E r, q \in Requests :
        /\ Done(r) /\ req[r].status = 404 /\ req[r].resp.body = Img99
        /\ Done(q) /\ req[q].status = 404 /\ req[q].resp.status = 404

\* C7: a request whose store get failed with an error other than NoSuchKey
\* ends with 500 and performs neither an origin fetch nor a store put.
C7_StoreReadErrorEscalates ==
    \A r \in Requests :
        req[r].got \in StoreErrors
            => (/\ Done(r)
                /\ req[r].status = 500
                /\ req[r].fetches = <<>>
                /\ req[r].puts = <<>>)

C7_Witness ==
    \E r, q \in Requests :
        /\ req[r].got = "ClientError" /\ req[r].status = 500
        /\ req[q].got = "Exception" /\ req[q].status = 500

\* C8: a request whose lookup reported key-absent and whose origin answered
\* 200 with a Content-Type that is present and does not begin with image/
\* ends with 404 and no put.
C8_ContentTypeGates ==
    \A r \in Requests :
        (/\ Done(r) /\ req[r].got = "NoSuchKey"
         /\ req[r].resp.raises = "none" /\ req[r].resp.status = 200
         /\ ForeignContentType(req[r].resp))
            => (req[r].status = 404 /\ req[r].puts = <<>>)

(***************************************************************************)
(* Properties of the name functions, under SpecNames.                      *)
(***************************************************************************)

\* C9, as claimed: is_valid_image_name is false for every string that
\* contains "/", for the empty string and for every string whose leading
\* digit run is not 8 long.
C9_RejectsEverySeparator ==
    fn = "is_valid_image_name"
        => ((HasSlash(arg) \/ arg = <<>> \/ LeadingRun(arg) # 8) => ~ok)

\* C9, amended: is_valid_image_name is false unless the part of the string
\* after its last "/" starts with exactly 8 ASCII digits, then ".L", then a
\* decimal digit; so it is false for a string with "/" whose final component
\* is not such a name (../../etc/passwd), for the empty string and for a
\* final component whose leading digit run is not 8 long.
C9_RejectsIllFormedFinalComponent ==
    fn = "is_valid_image_name"
        => (ok => LET c == FinalComponent(arg)
                  IN /\ arg # <<>>
                     /\ LeadingRun(c) = 8
                     /\ Len(c) >= 11
                     /\ c[9] = "." /\ c[10] = "L"
                     /\ c[11] \in DecimalDigit)

C9_Witness ==
    fn = "is_valid_image_name" /\ arg = TRAVERSAL /\ ~ok

\* C10, as claimed: extract_image_name returns the last "/"-separated
\* component of every path, without "/".
C10_ExtractIsFinalComponent ==
    fn = "extract_image_name"
        => (~HasSlash(out) /\ out = FinalComponent(arg))

\* C10, amended: for a path that is a single non-empty component, alone or
\* behind one segment of 8 decimal digits, extract_image_name returns that
\* component, without "/"; every other path is returned unchanged.
C10_ExtractDropsDateOnly ==
    fn = "extract_image_name"
        => IF PlainOrDated(arg)
           THEN ~HasSlash(out) /\ out = FinalComponent(arg)
           ELSE out = arg

C10_Witness ==
    fn = "extract_image_name" /\ arg = DATE \o NAME /\ out = NAME

\* C11: normalize_image_name is idempotent: applied to its own result it
\* returns that result.
C11_NormalizeIdempotent ==
    fn = "normalize_image_name" => normalize_image_name(out) = out

\* C12: for a valid name the storage key ends with .jpg and the part before
\* it does not end with .jpg in any letter case; and a valid name has the same
\* key as that name followed by .jpg, in lower or mixed case, when that is
\* valid too.
C12_KeyHasOneSuffix ==
    (fn = "get_storage_key" /\ is_valid_image_name(arg))
        => (/\ EndsWith(out, DOTJPG)
            /\ ~EndsWith(Lower(SubSeq(out, 1, Len(out) - 4)), DOTJPG)
            /\ \A ext \in {DOTJPG, MIXEDJPG} :
                  is_valid_image_name(arg \o ext)
                      => get_storage_key(arg \o ext) = out)

C12_Witness ==
    /\ fn = "get_storage_key"
    /\ arg = DATE \o NAME \o MIXEDJPG
    /\ out = NAME \o DOTJPG

\* C13: the normalized form of a valid name is valid.
C13_NormalizeKeepsValid ==
    (fn = "normalize_image_name" /\ is_valid_image_name(arg))
        => is_valid_image_name(out)

C13_Witness ==
    /\ fn = "normalize_image_name"
    /\ arg = DATE \o NAME \o DOTJPG
    /\ out = NAME
    /\ is_valid_image_name(arg)

(***************************************************************************)
(* Properties of concurrent requests, under Spec.                          *)
(***************************************************************************)
\* Request r found its key absent, fetched and issued its put.
IssuedPut(r) ==
    Done(r) /\ req[r].got = "NoSuchKey" /\ req[r].puts # <<>>

\* Request r filled the store: its put succeeded.
FilledOk(r) ==
    IssuedPut(r) /\ req[r].puts[1].ok

\* 8 ASCII digits, ".L", one or more ASCII digits, and nothing else.
StrictName(s) ==
    /\ Len(s) >= 11
    /\ \A i \in 1..8 : s[i] \in AsciiDigit
    /\ s[9] = "."
    /\ s[10] = "L"
    /\ \A i \in 11..Len(s) : s[i] \in AsciiDigit

\* A strict name followed by ".jpg".
StrictKey(k) ==
    /\ Len(k) >= 15
    /\ EndsWith(k, DOTJPG)
    /\ StrictName(SubSeq(k, 1, Len(k) - 4))

\* Spellings of the identifier NAME: bare, with a .jpg suffix, behind a date.
Spellings == {NAME, NAME \o MIXEDJPG, DATE \o NAME}

\* Request q takes its first step, with a spelling of NAME.
ArrivesSpelled(q) ==
    /\ req[q].pc = "idle"
    /\ req'[q].pc # "idle"
    /\ req'[q].path \in Spellings

\* C14: when two requests for the same key both found it absent, both
\* fetched and both issued their put (so both gets came before either put),
\* both end with 200 and their own fetched bytes, and, no third request
\* having put under that key, the store holds under it the bytes of one of
\* the puts that succeeded.
C14_ConcurrentMissesBothFill ==
    \A r, q \in Requests :
        (/\ r # q
         /\ IssuedPut(r) /\ IssuedPut(q)
         /\ req[r].key = req[q].key
         /\ \A p \in Requests \ {r, q} :
               req[p].puts = <<>> \/ req[p].puts[1].key # req[r].key)
            => (/\ req[r].status = 200 /\ req[r].body = req[r].resp.body
                /\ req[q].status = 200 /\ req[q].body = req[q].resp.body
                /\ Len(req[r].fetches) = 1 /\ Len(req[q].fetches) = 1
                /\ (FilledOk(r) \/ FilledOk(q))
                      => (/\ req[r].key \in DOMAIN store
                          /\ \E p \in {r, q} :
                                /\ FilledOk(p)
                                /\ store[req[r].key] = req[p].resp.body))

C14_Witness ==
    /\ FilledOk(1) /\ FilledOk(2)
    /\ req[1].path = NAME /\ req[2].path = DATE \o NAME
    /\ req[1].key = req[2].key
    /\ req[1].body = ImgA /\ req[2].body = Img100
    /\ store[req[1].key] \in {ImgA, Img100}

\* C15, as claimed: the bytes stored under a key never change.
C15_WriteOnce ==
    [][\A k \in DOMAIN store :
          k \in DOMAIN store' /\ store'[k] = store[k]]_vars

\* C15, amended: a stored key stays, and its bytes change only by the
\* successful put of a request that was already awaiting its origin fetch
\* for that key (its get had found the key absent), which stores the valid
\* payload that request fetched.
C15_OverwrittenOnlyByOverlappingFill ==
    [][\A k \in DOMAIN store :
          /\ k \in DOMAIN store'
          /\ store'[k] # store[k]
                => \E r \in Requests :
                      /\ req[r].pc = "fetching"
                      /\ req[r].got = "NoSuchKey"
                      /\ req[r].gets = <<k>>
                      /\ req'[r].pc = "done"
                      /\ req'[r].puts # <<>>
                      /\ req'[r].puts[1].ok
                      /\ req'[r].puts[1].key = k
                      /\ ValidPayload(req'[r].resp)
                      /\ store'[k] = req'[r].resp.body]_vars

C15_Witness ==
    /\ FilledOk(1) /\ FilledOk(2)
    /\ req[1].key = req[2].key
    /\ req[1].puts[1].body = Img100
    /\ req[2].puts[1].body = ImgA
    /\ store[req[1].key] = ImgA

\* C16: a request issues at most one get, one fetch and one put; it has
\* fetched only if its get reported the key absent; it has put only if its
\* fetch brought a valid payload; and the put has the key of the get.
C16_BoundedOrderedIO ==
    \A r \in Requests :
        /\ Len(req[r].gets) <= 1
        /\ Len(req[r].fetches) <= 1
        /\ Len(req[r].puts) <= 1
        /\ req[r].fetches # <<>>
              => (req[r].gets # <<>> /\ req[r].got = "NoSuchKey")
        /\ req[r].puts # <<>>
              => (/\ req[r].fetches # <<>>
                  /\ ValidPayload(req[r].resp)
                  /\ req[r].puts[1].key = req[r].gets[1]
                  /\ req[r].puts[1].body = req[r].resp.body)

C16_Witness ==
    \E r \in Requests :
        /\ Done(r)
        /\ Len(req[r].gets) = 1 /\ Len(req[r].fetches) = 1
        /\ Len(req[r].puts) = 1
        /\ req[r].path = <<"a", "/">> \o NAME

(***************************************************************************)
(* Termination.                                                            *)
(***************************************************************************)

\* C17: a request that ended has exactly one of the outcomes 200, 400, 404
\* and 500 and keeps it; a request that has not ended has none; every step
\* of a request takes it from idle to fetching or done, or from fetching to
\* done; and a request awaiting its origin fetch can always take its step,
\* whatever the origin does.  So a request ends within two steps, given
\* that the awaited call returns or raises.
C17_OneTerminalOutcome ==
    /\ [](\A r \in Requests :
            /\ req[r].pc \in {"idle", "fetching", "done"}
            /\ Done(r) => req[r].status \in {200, 400, 404, 500}
            /\ ~Done(r) => req[r].status = 0
            /\ req[r].pc = "fetching" => ENABLED FetchReturns(r))
    /\ [][\A r \in Requests :
            req'[r] # req[r]
                => \/ req[r].pc = "idle" /\ req'[r].pc \in {"fetching", "done"}
                   \/ req[r].pc = "fetching" /\ req'[r].pc = "done"]_vars

\* The same as a liveness property, under SpecFair: a request awaiting its
\* origin fetch ends.
C17_EventuallyDone ==
    \A r \in Requests : (req[r].pc = "fetching") ~> Done(r)

C17_Witness ==
    \E r, q \in Requests :
        /\ Done(r) /\ req[r].status = 500 /\ req[r].resp.raises = "get"
        /\ Done(q) /\ req[q].status = 404

(***************************************************************************)
(* Properties of the keys and of the stored bodies, under Spec.            *)
(***************************************************************************)

\* C18: every key passed to a store get or put is 8 decimal digits, ".L",
\* one or more decimal digits and ".jpg", and every name sent to the origin
\* is that key without ".jpg".
C18_KeysAreSanitized ==
    \A r \in Requests :
        /\ \A i \in 1..Len(req[r].gets) : StrictKey(req[r].gets[i])
        /\ \A i \in 1..Len(req[r].puts) : StrictKey(req[r].puts[i].key)
        /\ \A i \in 1..Len(req[r].fetches) :
              /\ StrictName(req[r].fetches[i])
              /\ req[r].fetches[i] \o DOTJPG = req[r].key

\* C19: every body in the store has at least 100 bytes, decodes as an image
\* and is the body of a 200 response of the origin that a request put under
\* that key.
C19_StoredBodiesAreValidated ==
    \A k \in DOMAIN store :
        /\ store[k].size >= 100
        /\ store[k].image
        /\ \E r \in Requests :
              /\ FilledOk(r)
              /\ req[r].puts[1].key = k
              /\ req[r].resp.status = 200
              /\ req[r].resp.raises = "none"
              /\ req[r].resp.body = store[k]

C19_Witness ==
    \E r \in Requests :
        /\ FilledOk(r)
        /\ req[r].resp.body = Img100
        /\ req[r].key \in DOMAIN store
        /\ store[req[r].key] = Img100

====
